---------------------------- MODULE Spec2Model ----------------------------
(***************************************************************************)
(* Streamable background-process execution of the coding agent: the bash   *)
(* tool (the supervisor of one start call), the process registry and the   *)
(* control operations (poll, kill) that act on the registered session.     *)
(*                                                                         *)
(* One start call and its session are modelled.  Every action is one       *)
(* callback of the single-threaded event loop, run to completion.          *)
(*                                                                         *)
(* Spec       the supervisor with every token and the control operations   *)
(* StdinSpec  the same with writes to the child's stdin                    *)
(* OutputSpec a spawned child that writes output, polled, logged, listed   *)
(* EventSpec  a spawned child that writes output to a sink: the events     *)
(* SinkSpec   the same with a sink that can throw                          *)
(* DataSpec   the data handlers for output with multi-byte characters      *)
(* RingSpec   appendOutput alone, for any cap                              *)
(* DrainSpec  appendOutput and drainSession alone, for any cap             *)
(* YieldSpec  the yield window for any yieldMs and environment value       *)
(* SweepSpec  the finished map and its sweeper as the specification has    *)
(*            them (the source has neither)                                *)
(***************************************************************************)
EXTENDS Integers, Sequences, FiniteSets, TLC

VARIABLES
    pc,             \* position of the start call: "init" | "started" | "threw"
    startError,     \* the error that left the supervisor uncaught, or "none"
    signal,         \* abort token: "none" (not supplied) | "idle" | "aborted"
    yieldSignal,    \* soft-yield token: "none" | "idle" | "aborted"
    hasSink,        \* whether emitEvent was supplied
    call,           \* the promise of the start call: settled, yielded, outcome, ...
    yieldTimer,     \* "unset" | "armed" | "cleared" | "fired"
    child,          \* the spawned child: pid, OS state, pending exit / error event
    killCalls,      \* number of killProcessTree invocations
    progressEvents, \* number of tool_execution_progress events handed to the sink
    sessions,       \* the registry map: TRUE iff it holds the session's id
    finishedSessions, \* the finished map: TRUE iff it holds the session's id
    session,        \* the session object (shared by the registry and the closures)
    status,         \* the status the code last determined for the session
    result,         \* the tool result of the last control operation
    io,             \* history of the child's output: read, appended, drained, emitted
    clock,          \* the time now, and the session's endedAt once it is finished
    events,         \* the events the sink received, in the order it received them
    yieldWindow     \* the yield window: its inputs and the value execute computed

vars == <<pc, startError, signal, yieldSignal, hasSink, call, yieldTimer, child,
          killCalls, progressEvents, sessions, finishedSessions, session,
          status, result, io, clock, events, yieldWindow>>

---------------------------------------------------------------------------
(* Values *)

\* exit code null of child.once("exit", (code, exitSignal) => ...)
NoCode == -1
\* exit signal null
NoSignal == "none"

\* the (code, signal) pairs an exit notification carries: a normal exit with
\* code 0 or 1 and no signal, or a death by SIGKILL without a code
NaturalExits == { <<0, NoSignal>>, <<1, NoSignal>> }
KilledExit == <<NoCode, "SIGKILL">>

\* a time that is not set
NoTime == -1

\* no stdin write is in flight
NoWrite == [op |-> "none", eof |-> FALSE, err |-> FALSE]

NoResult == [op |-> "none", status |-> "none", text |-> "none"]

\* the values a numeric option can have in JavaScript: undefined, NaN, an
\* infinity, or a number
Undefined == [kind |-> "undefined", n |-> 0]
NaN == [kind |-> "NaN", n |-> 0]
PosInfinity == [kind |-> "Infinity", n |-> 0]
NegInfinity == [kind |-> "-Infinity", n |-> 0]
Number(n) == [kind |-> "number", n |-> n]

\* process.env[key]: not set, the empty string, text that does not start with
\* a number, a decimal integer, or more digits than a double can hold
EnvUnset == [kind |-> "unset", n |-> 0]
EnvEmpty == [kind |-> "empty", n |-> 0]
EnvText == [kind |-> "text", n |-> 0]
EnvHuge == [kind |-> "huge", n |-> 0]
EnvDigits(n) == [kind |-> "digits", n |-> n]

\* the yield window is not computed yet
NoWindow ==
    [set |-> FALSE, env |-> EnvUnset, yieldMs |-> Undefined,
     DEFAULT_YIELD_MS |-> 0, ms |-> 0]

---------------------------------------------------------------------------
(* process-registry.ts *)

\* markExited(session, exitCode, exitSignal): a fourth argument is dropped
markExited(s, exitCode, exitSignal) ==
    [s EXCEPT !.exited = TRUE, !.exitCode = exitCode, !.exitSignal = exitSignal]

\* mutant of getSession: a session is found whatever the map holds
getSessionFindsAny == TRUE

\* getSession(id): the session when the map holds it
getSession == sessions

\* getFinishedSession(id): lookup in the finished map
getFinishedSession == finishedSessions

\* scale of the output model: the cap of the aggregated buffer
\* (DEFAULT_MAX_OUTPUT), the length of the tail (2000 in the source), the
\* chunk size of the data handlers (CHUNK_LIMIT) and the number of
\* characters the child writes
MaxOutputChars == 2
TailChars == 1
ChunkLimit == 2
MaxRead == 3

\* text.slice(text.length - max) of a text longer than max
lastChars(text, max) == SubSeq(text, Len(text) - max + 1, Len(text))

\* tail(text, max)
tail(text, max) == IF Len(text) <= max THEN text ELSE lastChars(text, max)

\* mutant of trimWithCap: the head of the text is kept instead of its end
trimWithCapKeepsHead(text, max) == IF Len(text) <= max THEN text ELSE SubSeq(text, 1, max)

\* trimWithCap(text, max)
trimWithCap(text, max) == IF Len(text) <= max THEN text ELSE lastChars(text, max)

\* appendOutput(session, stream, chunk): truncated and totalOutputChars are
\* not touched
appendOutput(s, stream, chunk) ==
    LET aggregated == trimWithCap(s.aggregated \o chunk, s.maxOutputChars)
    IN  [s EXCEPT !.pendingStdout = IF stream = "stdout" THEN Append(@, chunk) ELSE @,
                  !.pendingStderr = IF stream = "stderr" THEN Append(@, chunk) ELSE @,
                  !.aggregated = aggregated,
                  !.tail = tail(aggregated, TailChars)]

\* chunks.join("")
RECURSIVE join(_)
join(chunks) == IF chunks = <<>> THEN <<>> ELSE Head(chunks) \o join(Tail(chunks))

\* drainSession(session): the value returned ...
drained(s) == [stdout |-> join(s.pendingStdout), stderr |-> join(s.pendingStderr)]

\* mutant of drainSession: the ring is emptied too
drainSessionClearsRing(s) ==
    [s EXCEPT !.pendingStdout = <<>>, !.pendingStderr = <<>>,
              !.aggregated = <<>>, !.tail = <<>>]

\* ... and the session it leaves
drainSession(s) == [s EXCEPT !.pendingStdout = <<>>, !.pendingStderr = <<>>]

---------------------------------------------------------------------------
(* shell-utils.ts *)

\* process.kill(-pid, "SIGKILL") and process.kill(pid, "SIGKILL") throw
\* (ESRCH) when no such process or group exists
processKillThrows(ch) == ch.state # "alive"

\* the child after SIGKILL reached it
killed(ch) ==
    [ch EXCEPT !.state = "dead", !.exitEvent = "pending", !.exitPair = KilledExit]

\* mutant of killProcessTree: the error of the second process.kill escapes
killProcessTreeUncaught(ch) ==
    IF ~processKillThrows(ch) THEN killed(ch)
    ELSE [ch EXCEPT !.killError = TRUE]

\* killProcessTree(pid): SIGKILL to the group; if that throws, SIGKILL to the
\* pid; if that throws too the error is dropped ("Already dead"), so
\* killError, an error that escaped the function, is never set
killProcessTree(ch) ==
    IF ~processKillThrows(ch) THEN killed(ch)
    ELSE IF ~processKillThrows(ch) THEN killed(ch)
    ELSE ch

---------------------------------------------------------------------------
(* bash.ts: the supervisor *)

\* mutant of settle: the settled guard is missing
settleUnguarded(c, o, by) ==
    [c EXCEPT !.settled = TRUE, !.outcome = o, !.settledBy = by,
              !.settleCount = @ + 1]

\* settle(fn): runs fn (a resolve or a reject) unless already settled
settle(c, o, by) ==
    IF c.settled THEN c
    ELSE [c EXCEPT !.settled = TRUE, !.outcome = o, !.settledBy = by,
                   !.settleCount = @ + 1]

\* onAbort: kill the process tree when the child has a pid
onAbort(ch) == IF ch.pid THEN killProcessTree(ch) ELSE ch
onAbortKills(ch) == IF ch.pid THEN 1 ELSE 0

\* the body shared by onYieldNow and the yield-timer callback, on the call:
\* if (settled) return; yielded = true; emit progress; resolveRunning()
yieldCall(c, by) ==
    IF c.settled THEN c ELSE settle([c EXCEPT !.yielded = TRUE], "running", by)

\* ... and on the sink: emitEvent?.({type: "tool_execution_progress", ...})
yieldProgress(c, n, sink) ==
    IF c.settled THEN n ELSE IF sink THEN n + 1 ELSE n

\* the tool_execution_progress event of a yield, carrying tail: session.tail
progressEvent(text) == [type |-> "tool_execution_progress", tail |-> text]

\* the tool_execution_output event of emitChunk
outputEvent(stream, chunk) ==
    [type |-> "tool_execution_output", stream |-> stream, chunk |-> chunk]

\* mutant of yieldEvents: the progress event carries an empty tail
yieldEventsEmptyTail(c, evs, sink, text) ==
    IF c.settled \/ ~sink THEN evs ELSE Append(evs, progressEvent(<<>>))

\* what the sink has received after a yield: the progress event is emitted
\* unless the call is settled or no sink was supplied
yieldEvents(c, evs, sink, text) ==
    IF c.settled \/ ~sink THEN evs ELSE Append(evs, progressEvent(text))

\* mutant of isSuccess: the abort token is not consulted
isSuccessNoAbort(code, exitSignal, aborted) ==
    code = 0 /\ exitSignal = NoSignal

\* mutant of isSuccess: the exit code is not compared
isSuccessNoCode(code, exitSignal, aborted) ==
    exitSignal = NoSignal /\ ~aborted

\* isSuccess = code === 0 && !wasSignal && !signal?.aborted
isSuccess(code, exitSignal, aborted) ==
    code = 0 /\ exitSignal = NoSignal /\ ~aborted

\* status = isSuccess ? "completed" : "failed"
exitStatus(code, exitSignal, aborted) ==
    IF isSuccess(code, exitSignal, aborted) THEN "completed" ELSE "failed"

\* the session literal of execute; exitCode and exitSignal start undefined
newSession ==
    [exited |-> FALSE, exitCode |-> NoCode, exitSignal |-> NoSignal,
     backgrounded |-> FALSE, maxOutputChars |-> MaxOutputChars,
     totalOutputChars |-> 0, pendingStdout |-> <<>>, pendingStderr |-> <<>>,
     aggregated |-> <<>>, tail |-> <<>>, truncated |-> FALSE]

\* nothing read from the child yet
NoOutput ==
    [readOut |-> <<>>, readErr |-> <<>>, drainedOut |-> <<>>, drainedErr |-> <<>>,
     emitted |-> 0, appended |-> <<>>]

\* chunkString(input, limit)
RECURSIVE chunkString(_, _)
chunkString(input, limit) ==
    IF input = <<>> THEN <<>>
    ELSE IF Len(input) <= limit THEN <<input>>
    ELSE <<SubSeq(input, 1, limit)>> \o
         chunkString(SubSeq(input, limit + 1, Len(input)), limit)

\* for (const chunk of chunkString(str)) appendOutput(session, stream, chunk)
RECURSIVE appendChunks(_, _, _)
appendChunks(s, stream, chunks) ==
    IF chunks = <<>> THEN s
    ELSE appendChunks(appendOutput(s, stream, Head(chunks)), stream, Tail(chunks))

\* emitChunk for every chunk: one tool_execution_output event each when a sink
\* was supplied
emitChunks(emitted, sink, chunks) ==
    IF sink THEN emitted + Len(chunks) ELSE emitted

---------------------------------------------------------------------------
\* before the start call: nothing spawned, nothing registered, nothing read
Unstarted ==
    /\ pc = "init"
    /\ startError = "none"
    /\ signal = "none"
    /\ yieldSignal = "none"
    /\ hasSink = FALSE
    /\ call = [settled |-> FALSE, yielded |-> FALSE, outcome |-> "none",
               settledBy |-> "none", settleCount |-> 0]
    /\ yieldTimer = "unset"
    /\ child = [pid |-> FALSE, state |-> "none", exitEvent |-> "none",
                exitPair |-> <<NoCode, NoSignal>>, errorEvent |-> "none",
                stdin |-> "open", write |-> NoWrite,
                killError |-> FALSE]
    /\ killCalls = 0
    /\ progressEvents = 0
    /\ sessions = FALSE
    /\ finishedSessions = FALSE
    /\ status = "none"
    /\ result = NoResult
    /\ io = NoOutput
    /\ clock = [now |-> 0, endedAt |-> NoTime, sweptAt |-> NoTime, evicted |-> FALSE]
    /\ events = <<>>
    /\ yieldWindow = NoWindow

Init ==
    /\ Unstarted
    /\ session = newSession

\* the commands and the stdinMode arguments tried ("none": not supplied)
Commands == {"", "cmd"}
StdinModes == {"none", "pipe", "pty"}

\* bashTool.execute with an empty command or a stdin mode other than "pipe":
\* the two checks at the top throw before anything else is done
executeThrows(command, stdinMode) ==
    /\ pc = "init"
    /\ command = "" \/ stdinMode = "pty"
    /\ startError' = IF command = "" THEN "MissingCommand"
                     ELSE "UnsupportedStdinMode"
    /\ pc' = "threw"
    /\ UNCHANGED <<signal, yieldSignal, hasSink, call, yieldTimer, child,
                   killCalls, progressEvents, sessions, finishedSessions,
                   session, status, result,
                   io, clock,
                   events, yieldWindow>>

\* bashTool.execute with any invalid arguments
ExecuteThrows ==
    \E command \in Commands, stdinMode \in StdinModes :
       executeThrows(command, stdinMode)

\* bashTool.execute up to the return of the promise: spawn, addSession, the
\* abort listener (or onAbort at once), the yield listener (or onYieldNow at
\* once), the yield timer, the exit and error handlers
execute(signals, yieldSignals, sinks, spawns) ==
    /\ pc = "init"
    /\ \E sig \in signals, ysig \in yieldSignals, sink \in sinks, spawned \in spawns :
          LET ch0 == [pid |-> spawned,
                      state |-> IF spawned THEN "alive" ELSE "none",
                      exitEvent |-> "none",
                      exitPair |-> <<NoCode, NoSignal>>,
                      errorEvent |-> IF spawned THEN "none" ELSE "pending",
                      stdin |-> "open", write |-> NoWrite,
                killError |-> FALSE]
              c0 == [settled |-> FALSE, yielded |-> FALSE, outcome |-> "none",
                     settledBy |-> "none", settleCount |-> 0]
          IN  /\ signal' = sig
              /\ yieldSignal' = ysig
              /\ hasSink' = sink
              /\ child' = IF sig = "aborted" THEN onAbort(ch0) ELSE ch0
              /\ killCalls' = IF sig = "aborted" THEN onAbortKills(ch0) ELSE 0
              /\ call' = IF ysig = "aborted" THEN yieldCall(c0, "yield") ELSE c0
              /\ progressEvents' =
                    IF ysig = "aborted" THEN yieldProgress(c0, 0, sink) ELSE 0
              /\ events' =
                    IF ysig = "aborted"
                    THEN yieldEvents(c0, events, sink, newSession.tail) ELSE events
    /\ pc' = "started"
    /\ yieldTimer' = "armed"
    /\ sessions' = TRUE
    /\ session' = newSession
    /\ status' = "running"
    /\ UNCHANGED <<startError, finishedSessions, result, io, clock,
                   yieldWindow>>

\* a start call with any tokens, with or without a sink, whose spawn succeeds
\* or fails
Execute ==
    execute({"none", "idle", "aborted"}, {"none", "idle", "aborted"}, BOOLEAN, BOOLEAN)

\* bashStreamTool.execute: only the stdin mode is checked; with any command,
\* the empty one included, the call goes on as bashTool.execute does, without
\* a yield token
bashStreamExecute(command, stdinMode) ==
    IF stdinMode = "pty"
    THEN /\ pc = "init"
         /\ startError' = "UnsupportedStdinMode"
         /\ pc' = "threw"
         /\ UNCHANGED <<signal, yieldSignal, hasSink, call, yieldTimer, child,
                        killCalls, progressEvents, sessions, finishedSessions,
                        session, status, result, io, clock, events, yieldWindow>>
    ELSE execute({"none", "idle", "aborted"}, {"none"}, BOOLEAN, BOOLEAN)

\* bashStreamTool.execute with any arguments
BashStreamExecute ==
    \E command \in Commands, stdinMode \in StdinModes :
       bashStreamExecute(command, stdinMode)

\* a start call without an abort token and without a sink whose spawn succeeds
ExecuteSpawned ==
    execute({"none"}, {"none", "idle"}, {FALSE}, {TRUE})

\* a start call with an abort token and a sink whose spawn succeeds
ExecuteEmitting ==
    execute({"idle"}, {"none", "idle"}, {TRUE}, {TRUE})

\* the abort token fires: the once-listener onAbort runs
AbortFire ==
    /\ pc = "started"
    /\ signal = "idle"
    /\ signal' = "aborted"
    /\ child' = onAbort(child)
    /\ killCalls' = killCalls + onAbortKills(child)
    /\ UNCHANGED <<pc, startError, yieldSignal, hasSink, call, yieldTimer,
                   progressEvents, sessions, finishedSessions, session, status,
                   result,
                   io, clock,
                   events, yieldWindow>>

\* mutant of YieldFire: the yield token is treated like the abort token
YieldFireKills ==
    /\ pc = "started"
    /\ yieldSignal = "idle"
    /\ yieldSignal' = "aborted"
    /\ yieldTimer' = IF yieldTimer = "armed" THEN "cleared" ELSE yieldTimer
    /\ call' = yieldCall(call, "yield")
    /\ progressEvents' = yieldProgress(call, progressEvents, hasSink)
    /\ child' = onAbort(child)
    /\ killCalls' = killCalls + onAbortKills(child)
    /\ events' = yieldEvents(call, events, hasSink, session.tail)
    /\ UNCHANGED <<pc, startError, signal, hasSink, sessions, finishedSessions,
                   session, status, result,
                   io, clock,
                   yieldWindow>>

\* the yield token fires: the once-listener onYieldNow runs
YieldFire ==
    /\ pc = "started"
    /\ yieldSignal = "idle"
    /\ yieldSignal' = "aborted"
    /\ yieldTimer' = IF yieldTimer = "armed" THEN "cleared" ELSE yieldTimer
    /\ call' = yieldCall(call, "yield")
    /\ progressEvents' = yieldProgress(call, progressEvents, hasSink)
    /\ events' = yieldEvents(call, events, hasSink, session.tail)
    /\ UNCHANGED <<pc, startError, signal, hasSink, child, killCalls, sessions,
                   finishedSessions, session, status, result,
                   io, clock,
                   yieldWindow>>

\* mutant of TimerExpire: the callback lacks "if (settled) return"
TimerExpireUnguarded ==
    /\ pc = "started"
    /\ yieldTimer = "armed"
    /\ yieldTimer' = "fired"
    /\ call' = settle([call EXCEPT !.yielded = TRUE], "running", "timer")
    /\ progressEvents' = IF hasSink THEN progressEvents + 1 ELSE progressEvents
    /\ events' = IF hasSink THEN Append(events, progressEvent(session.tail)) ELSE events
    /\ UNCHANGED <<pc, startError, signal, yieldSignal, hasSink, child,
                   killCalls, sessions, finishedSessions, session, status, result,
                   io, clock,
                   yieldWindow>>

\* the yield timer expires
TimerExpire ==
    /\ pc = "started"
    /\ yieldTimer = "armed"
    /\ yieldTimer' = "fired"
    /\ call' = yieldCall(call, "timer")
    /\ progressEvents' = yieldProgress(call, progressEvents, hasSink)
    /\ events' = yieldEvents(call, events, hasSink, session.tail)
    /\ UNCHANGED <<pc, startError, signal, yieldSignal, hasSink, child,
                   killCalls, sessions, finishedSessions, session, status, result,
                   io, clock,
                   yieldWindow>>

\* the operating system: the child terminates by itself
ChildTerminates ==
    /\ pc = "started"
    /\ child.state = "alive"
    /\ \E pair \in NaturalExits :
          child' = [child EXCEPT !.state = "dead", !.exitEvent = "pending",
                                 !.exitPair = pair]
    /\ UNCHANGED <<pc, startError, signal, yieldSignal, hasSink, call,
                   yieldTimer, killCalls, progressEvents, sessions,
                   finishedSessions, session, status, result,
                   io, clock,
                   events, yieldWindow>>

\* mutant of ExitEvent: the handler settles without looking at yielded or settled
ExitEventResettles ==
    /\ pc = "started"
    /\ child.exitEvent = "pending"
    /\ LET code == child.exitPair[1]
           exitSignal == child.exitPair[2]
           ok == isSuccess(code, exitSignal, signal = "aborted")
       IN  /\ session' = markExited(session, code, exitSignal)
           /\ status' = exitStatus(code, exitSignal, signal = "aborted")
           /\ call' = settleUnguarded(call, IF ok THEN "completed" ELSE "failed", "exit")
    /\ yieldTimer' = IF yieldTimer = "armed" THEN "cleared" ELSE yieldTimer
    /\ child' = [child EXCEPT !.exitEvent = "handled"]
    /\ UNCHANGED <<pc, startError, signal, yieldSignal, hasSink, killCalls,
                   progressEvents, sessions, finishedSessions, result,
                   io, clock,
                   events, yieldWindow>>

\* child.once("exit", (code, exitSignal) => ...)
ExitEvent ==
    /\ pc = "started"
    /\ child.exitEvent = "pending"
    /\ LET code == child.exitPair[1]
           exitSignal == child.exitPair[2]
           ok == isSuccess(code, exitSignal, signal = "aborted")
       IN  /\ session' = markExited(session, code, exitSignal)
           /\ status' = exitStatus(code, exitSignal, signal = "aborted")
           /\ call' = IF call.yielded THEN call
                      ELSE settle(call, IF ok THEN "completed" ELSE "failed", "exit")
    /\ yieldTimer' = IF yieldTimer = "armed" THEN "cleared" ELSE yieldTimer
    /\ child' = [child EXCEPT !.exitEvent = "handled"]
    /\ UNCHANGED <<pc, startError, signal, yieldSignal, hasSink, killCalls,
                   progressEvents, sessions, finishedSessions, result,
                   io, clock,
                   events, yieldWindow>>

\* child.once("error", (err) => ...): the spawn failed
ErrorEvent ==
    /\ pc = "started"
    /\ child.errorEvent = "pending"
    /\ yieldTimer' = IF yieldTimer = "armed" THEN "cleared" ELSE yieldTimer
    /\ call' = settle(call, "failed", "error")
    /\ child' = [child EXCEPT !.errorEvent = "handled"]
    /\ UNCHANGED <<pc, startError, signal, yieldSignal, hasSink, killCalls,
                   progressEvents, sessions, finishedSessions, session, status,
                   result,
                   io, clock,
                   events, yieldWindow>>

\* emitChunk(emitEvent, toolCallId, stream, chunk): nothing without a sink
emitChunk(evs, sink, stream, chunk) ==
    IF ~sink THEN evs ELSE Append(evs, outputEvent(stream, chunk))

\* emitChunk for every chunk of one data event, in the order of the chunks
RECURSIVE emitEvents(_, _, _, _)
emitEvents(evs, sink, stream, chunks) ==
    IF chunks = <<>> THEN evs
    ELSE emitEvents(emitChunk(evs, sink, stream, Head(chunks)), sink, stream,
                    Tail(chunks))

\* the character String.fromCharCode(0xFFFD) that decoding puts in the place
\* of a malformed byte sequence
ReplacementChar == 65533

\* data.toString(): the buffer decoded as UTF-8 on its own.  A byte below 128
\* is that character, a lead byte 110xxxxx followed by a continuation byte
\* 10xxxxxx is one character, and a lead byte without its continuation or a
\* continuation byte without its lead is replaced
RECURSIVE toString(_)
toString(data) ==
    IF data = <<>> THEN <<>>
    ELSE LET b == Head(data)
         IN  IF b < 128 THEN <<b>> \o toString(Tail(data))
             ELSE IF b \in 192..223 /\ Len(data) >= 2 /\ data[2] \in 128..191
             THEN <<(b - 192) * 64 + (data[2] - 128)>> \o toString(Tail(Tail(data)))
             ELSE <<ReplacementChar>> \o toString(Tail(data))

\* child.stdout.on("data", ...) / child.stderr.on("data", ...): one buffer of
\* the stream is decoded, cut into chunks, and every chunk is appended and
\* emitted
onData(stream, data) ==
    /\ pc = "started"
    /\ child.pid
    /\ LET str == toString(data)
           chunks == chunkString(str, ChunkLimit)
       IN  /\ session' = appendChunks(session, stream, chunks)
           /\ events' = emitEvents(events, hasSink, stream, chunks)
           /\ io' = [io EXCEPT
                       !.readOut = IF stream = "stdout" THEN @ \o data ELSE @,
                       !.readErr = IF stream = "stderr" THEN @ \o data ELSE @,
                       !.emitted = emitChunks(@, hasSink, chunks)]
    /\ UNCHANGED <<pc, startError, signal, yieldSignal, hasSink, call,
                   yieldTimer, child, killCalls, progressEvents, sessions,
                   finishedSessions, status, result, clock, yieldWindow>>

\* a child that writes ASCII text, its characters numbered in the order the
\* child wrote them; a data event delivers the next len of them
ChildData ==
    \E stream \in {"stdout", "stderr"},
       len \in 1..(MaxRead - Len(io.readOut) - Len(io.readErr)) :
       onData(stream, [i \in 1..len |-> Len(io.readOut) + Len(io.readErr) + i])

\* a data event during which emitEvent throws at the k-th chunk: the chunks up
\* to the k-th were appended and those before it emitted; the error leaves the
\* loop and the listener, so the rest of the read is neither appended nor
\* emitted.  Nothing in the supervisor catches it: it surfaces as an uncaught
\* exception, which ends the host process unless the host handles it
onDataSinkThrows(stream, data, k) ==
    /\ pc = "started"
    /\ child.pid
    /\ hasSink
    /\ LET chunks == chunkString(toString(data), ChunkLimit)
       IN  /\ k \in 1..Len(chunks)
           /\ session' = appendChunks(session, stream, SubSeq(chunks, 1, k))
           /\ events' = emitEvents(events, hasSink, stream, SubSeq(chunks, 1, k - 1))
           /\ io' = [io EXCEPT
                       !.readOut = IF stream = "stdout" THEN @ \o data ELSE @,
                       !.readErr = IF stream = "stderr" THEN @ \o data ELSE @,
                       !.emitted = emitChunks(@, hasSink, SubSeq(chunks, 1, k - 1))]
    /\ startError' = "UncaughtSinkError"
    /\ \E handled \in BOOLEAN : pc' = IF handled THEN pc ELSE "crashed"
    /\ UNCHANGED <<signal, yieldSignal, hasSink, call,
                   yieldTimer, child, killCalls, progressEvents, sessions,
                   finishedSessions, status, result, clock, yieldWindow>>

\* a data event of the ASCII child whose sink throws at any of its chunks
ChildDataSinkThrows ==
    \E stream \in {"stdout", "stderr"},
       len \in 1..(MaxRead - Len(io.readOut) - Len(io.readErr)),
       k \in 1..MaxRead :
       onDataSinkThrows(stream,
                        [i \in 1..len |-> Len(io.readOut) + Len(io.readErr) + i], k)

\* the bytes of a child that writes "A" (65) and a two-byte character (195 169)
Bytes == {65, 195, 169}

\* the longest buffer of one data event
MaxBuffer == 2

\* the buffers a data event can deliver: the pipe cuts the stream anywhere
Buffers == UNION { [1..n -> Bytes] : n \in 1..MaxBuffer }

\* a child that writes text with multi-byte characters
ChildBytes ==
    \E stream \in {"stdout", "stderr"}, data \in Buffers :
       /\ Len(io.readOut) + Len(io.readErr) + Len(data) <= MaxRead
       /\ onData(stream, data)

---------------------------------------------------------------------------
(* Control operations *)

\* status = exitCode === 0 && exitSignal == null ? "completed" : "failed",
\* with exitCode = session.exitCode ?? 0
pollStatus(s) ==
    IF (s.exitCode = 0 \/ s.exitCode = NoCode) /\ s.exitSignal = NoSignal
    THEN "completed" ELSE "failed"

\* what a drain adds to the output handed out by polls
drainedBy(h, s) ==
    [h EXCEPT !.drainedOut = @ \o drained(s).stdout,
              !.drainedErr = @ \o drained(s).stderr]

\* processTool.execute, action "poll"
ProcessPoll ==
    /\ IF ~getSession
       THEN /\ result' = IF getFinishedSession
                         THEN [op |-> "poll", status |-> status, text |-> "exited"]
                         ELSE [op |-> "poll", status |-> "failed", text |-> "not found"]
            /\ UNCHANGED <<session, status, io>>
       ELSE IF ~session.backgrounded
       THEN /\ result' = [op |-> "poll", status |-> "failed",
                          text |-> "not backgrounded"]
            /\ UNCHANGED <<session, status, io>>
       ELSE IF session.exited
       THEN /\ session' = markExited(drainSession(session), session.exitCode,
                                     session.exitSignal)
            /\ io' = drainedBy(io, session)
            /\ status' = pollStatus(session)
            /\ result' = [op |-> "poll", status |-> pollStatus(session),
                          text |-> "exited"]
       ELSE /\ session' = drainSession(session)
            /\ io' = drainedBy(io, session)
            /\ result' = [op |-> "poll", status |-> "running",
                          text |-> "still running"]
            /\ UNCHANGED status
    /\ UNCHANGED <<pc, startError, signal, yieldSignal, hasSink, call,
                   yieldTimer, child, killCalls, progressEvents, sessions,
                   finishedSessions, clock,
                   events, yieldWindow>>

\* pollProcessTool.execute
PollProcess ==
    /\ IF getSession
       THEN /\ io' = drainedBy(io, session)
            /\ IF session.exited
               THEN /\ session' = markExited(drainSession(session), session.exitCode,
                                             session.exitSignal)
                    /\ status' = pollStatus(session)
                    /\ result' = [op |-> "poll_process",
                                  status |-> pollStatus(session), text |-> "exited"]
               ELSE /\ session' = drainSession(session)
                    /\ result' = [op |-> "poll_process", status |-> "running",
                                  text |-> "still running"]
                    /\ UNCHANGED status
       ELSE /\ result' = IF getFinishedSession
                         THEN [op |-> "poll_process",
                               status |-> IF status = "completed" THEN "completed"
                                          ELSE IF status = "running" THEN "running"
                                          ELSE "failed",
                               text |-> "exited"]
                         ELSE [op |-> "poll_process", status |-> "failed",
                               text |-> "not found"]
            /\ UNCHANGED <<session, status, io>>
    /\ UNCHANGED <<pc, startError, signal, yieldSignal, hasSink, call,
                   yieldTimer, child, killCalls, progressEvents, sessions,
                   finishedSessions, clock,
                   events, yieldWindow>>

\* mutant of ProcessKill: the backgrounded check is missing
ProcessKillUnchecked ==
    /\ IF ~getSession
       THEN /\ result' = [op |-> "kill", status |-> "failed", text |-> "not found"]
            /\ UNCHANGED <<session, status, child, killCalls>>
       ELSE /\ child' = onAbort(child)
            /\ killCalls' = killCalls + onAbortKills(child)
            /\ session' = markExited(session, NoCode, "SIGKILL")
            /\ status' = "failed"
            /\ result' = [op |-> "kill", status |-> "failed", text |-> "killed"]
    /\ UNCHANGED <<pc, startError, signal, yieldSignal, hasSink, call,
                   yieldTimer, progressEvents, sessions, finishedSessions,
                   io, clock,
                   events, yieldWindow>>

\* processTool.execute, action "kill"
ProcessKill ==
    /\ IF ~getSession
       THEN /\ result' = [op |-> "kill", status |-> "failed", text |-> "not found"]
            /\ UNCHANGED <<session, status, child, killCalls>>
       ELSE IF ~session.backgrounded
       THEN /\ result' = [op |-> "kill", status |-> "failed",
                          text |-> "not backgrounded"]
            /\ UNCHANGED <<session, status, child, killCalls>>
       ELSE /\ child' = onAbort(child)
            /\ killCalls' = killCalls + onAbortKills(child)
            /\ session' = markExited(session, NoCode, "SIGKILL")
            /\ status' = "failed"
            /\ result' = [op |-> "kill", status |-> "failed", text |-> "killed"]
    /\ UNCHANGED <<pc, startError, signal, yieldSignal, hasSink, call,
                   yieldTimer, progressEvents, sessions, finishedSessions,
                   io, clock,
                   events, yieldWindow>>

\* killProcessTool.execute
KillProcess ==
    /\ IF ~getSession
       THEN /\ result' = [op |-> "kill_process", status |-> "failed",
                          text |-> "not found"]
            /\ UNCHANGED <<session, status, child, killCalls, sessions>>
       ELSE /\ child' = onAbort(child)
            /\ killCalls' = killCalls + onAbortKills(child)
            /\ session' = markExited(session, NoCode, "SIGKILL")
            /\ status' = "failed"
            /\ sessions' = FALSE
            /\ result' = [op |-> "kill_process", status |-> "failed",
                          text |-> "killed"]
    /\ UNCHANGED <<pc, startError, signal, yieldSignal, hasSink, call,
                   yieldTimer, progressEvents, finishedSessions,
                   io, clock,
                   events, yieldWindow>>

\* listRunningSessions(): the sessions of the running map
listRunningSessions == IF sessions THEN <<session>> ELSE <<>>

\* listFinishedSessions(): the records of the finished map
listFinishedSessions == IF finishedSessions THEN <<session>> ELSE <<>>

\* an omitted numeric argument
NoArg == -1

\* text.slice(start, end) of JavaScript; end = NoArg is an omitted end and a
\* negative start counts from the end of the text
slice(text, start, end) ==
    LET from == IF start < 0 THEN (IF Len(text) + start < 0 THEN 0 ELSE Len(text) + start)
                ELSE start
        to == IF end = NoArg \/ end > Len(text) THEN Len(text) ELSE end
    IN  SubSeq(text, from + 1, to)

\* the offset and limit arguments tried on the log operations
LogOffsets == {NoArg, 0, 1, 2}
LogLimits == {NoArg, 0, 1}

\* mutant of getProcessLog: a log of an exited session moves it to the
\* finished map as a poll would
getProcessLogTransitions(offset, limit) ==
    /\ getSession
    /\ session.exited
    /\ sessions' = FALSE
    /\ finishedSessions' = TRUE
    /\ status' = pollStatus(session)
    /\ result' = [op |-> "get_process_log", status |-> pollStatus(session),
                  text |-> "log", total |-> Len(session.aggregated),
                  slice |-> session.aggregated]
    /\ UNCHANGED <<pc, startError, signal, yieldSignal, hasSink, call,
                   yieldTimer, child, killCalls, progressEvents, session,
                   io, clock, events, yieldWindow>>

\* getProcessLogTool.execute: a session of the map is drained and the drained
\* text is appended again, then a slice of aggregated is returned with status
\* "running"
getProcessLog(offset, limit) ==
    /\    LET start == IF offset = NoArg \/ offset < 0 THEN 0 ELSE offset
              max == IF limit # NoArg /\ limit > 0 THEN limit ELSE NoArg
              end == IF max # NoArg THEN start + max ELSE NoArg
              d == drained(session)
              s1 == drainSession(session)
              s2 == IF d.stdout # <<>> THEN appendOutput(s1, "stdout", d.stdout) ELSE s1
              s3 == IF d.stderr # <<>> THEN appendOutput(s2, "stderr", d.stderr) ELSE s2
          IN  IF getSession
              THEN /\ session' = s3
                   /\ UNCHANGED io
                   /\ result' = [op |-> "get_process_log", status |-> "running",
                                 text |-> "log", total |-> Len(s3.aggregated),
                                 slice |-> slice(s3.aggregated, start, end)]
              ELSE /\ result' =
                        IF getFinishedSession
                        THEN [op |-> "get_process_log",
                              status |-> IF status \in {"running", "completed"}
                                         THEN status ELSE "failed",
                              text |-> "log", total |-> Len(session.aggregated),
                              slice |-> slice(session.aggregated, start, end)]
                        ELSE [op |-> "get_process_log", status |-> "failed",
                              text |-> "not found"]
                   /\ UNCHANGED <<session, io>>
    /\ UNCHANGED <<pc, startError, signal, yieldSignal, hasSink, call,
                   yieldTimer, child, killCalls, progressEvents, sessions,
                   finishedSessions, status, clock,
                   events, yieldWindow>>

\* get_process_log with any of the arguments tried
GetProcessLog == \E offset \in LogOffsets, limit \in LogLimits : getProcessLog(offset, limit)

\* processTool.execute, action "log"
processLog(offset, limit) ==
    /\    LET start == IF offset = NoArg THEN 0 ELSE offset
              end == IF limit # NoArg /\ limit # 0 THEN start + limit ELSE NoArg
          IN  result' =
                 IF getSession
                 THEN IF ~session.backgrounded
                      THEN [op |-> "log", status |-> "failed",
                            text |-> "not backgrounded"]
                      ELSE [op |-> "log",
                            status |-> IF session.exited THEN "completed" ELSE "running",
                            text |-> "log", total |-> Len(session.aggregated),
                            slice |-> slice(session.aggregated, start, end)]
                 ELSE IF getFinishedSession
                 THEN [op |-> "log",
                       status |-> IF status = "completed" THEN "completed" ELSE "failed",
                       text |-> "log", total |-> Len(session.aggregated),
                       slice |-> slice(session.aggregated, start, end)]
                 ELSE [op |-> "log", status |-> "failed", text |-> "not found"]
    /\ UNCHANGED <<pc, startError, signal, yieldSignal, hasSink, call,
                   yieldTimer, child, killCalls, progressEvents, sessions,
                   finishedSessions, session, status, io, clock,
                   events, yieldWindow>>

\* the log of the process tool with any of the arguments tried
ProcessLog == \E offset \in LogOffsets, limit \in LogLimits : processLog(offset, limit)

\* the entries of a listing: every session of the running map with status
\* "running", then every finished record with its stored status
listEntries ==
    [i \in 1..Len(listRunningSessions) |-> "running"] \o
    [i \in 1..Len(listFinishedSessions) |-> status]

\* the limit arguments tried by a listing
ListLimits == {NoArg, 0, 1}

\* listProcessesTool.execute: the running entries and the finished records,
\* sorted by startedAt descending (the map holds one session, the sort leaves
\* its entry in place), cut to limit when limit is a positive number
listProcesses(limit) ==
    /\ LET all == listEntries
           sliced == IF limit # NoArg /\ limit # 0 /\ limit > 0
                     THEN slice(all, 0, limit) ELSE all
       IN  result' = [op |-> "list_processes", status |-> "completed",
                      text |-> "list", entries |-> sliced]
    /\ UNCHANGED <<pc, startError, signal, yieldSignal, hasSink, call,
                   yieldTimer, child, killCalls, progressEvents, sessions,
                   finishedSessions, session, status, io, clock,
                   events, yieldWindow>>

\* list_processes with any of the limits tried
ListProcesses == \E limit \in ListLimits : listProcesses(limit)

\* processTool.execute, action "list": the limit argument is not used
processList(limit) ==
    /\ result' = [op |-> "list", status |-> "completed", text |-> "list",
                  entries |-> listEntries]
    /\ UNCHANGED <<pc, startError, signal, yieldSignal, hasSink, call,
                   yieldTimer, child, killCalls, progressEvents, sessions,
                   finishedSessions, session, status, io, clock,
                   events, yieldWindow>>

\* the list of the process tool with any of the limits tried
ProcessList == \E limit \in ListLimits : processList(limit)

\* the operating system closes the child's stdin pipe: after the child is
\* gone (or was never spawned) or after stdin.end(), the stream becomes
\* destroyed
StdinCloses ==
    /\ pc = "started"
    /\ child.stdin \in {"open", "ended"}
    /\ child.state # "alive" \/ child.stdin = "ended"
    /\ child' = [child EXCEPT !.stdin = "destroyed"]
    /\ UNCHANGED <<pc, startError, signal, yieldSignal, hasSink, call,
                   yieldTimer, killCalls, progressEvents, sessions,
                   finishedSessions, session, status, result, io, clock,
                   events, yieldWindow>>

\* session.child.stdin.write(data, callback) is issued: the write is in
\* flight until its callback runs
stdinWrite(ch, op, eof) ==
    [ch EXCEPT !.write = [op |-> op, eof |-> eof, err |-> ch.stdin = "ended"]]

\* writeStdinTool.execute up to the await of the write
WriteStdin ==
    /\ child.write = NoWrite
    /\ \E eof \in BOOLEAN :
          IF ~getSession
          THEN /\ result' = [op |-> "write_stdin", status |-> "failed",
                             text |-> "not found"]
               /\ UNCHANGED child
          ELSE IF session.exited
          THEN /\ result' = [op |-> "write_stdin", status |-> "failed",
                             text |-> "exited"]
               /\ UNCHANGED child
          ELSE IF child.stdin = "destroyed"
          THEN /\ result' = [op |-> "write_stdin", status |-> "failed",
                             text |-> "not writable"]
               /\ UNCHANGED child
          ELSE /\ child' = stdinWrite(child, "write_stdin", eof)
               /\ UNCHANGED result
    /\ UNCHANGED <<pc, startError, signal, yieldSignal, hasSink, call,
                   yieldTimer, killCalls, progressEvents, sessions,
                   finishedSessions, session, status, io, clock,
                   events, yieldWindow>>

\* processTool.execute, action "write", up to the await of the write
ProcessWrite ==
    /\ child.write = NoWrite
    /\ \E eof \in BOOLEAN :
          IF ~getSession
          THEN /\ result' = [op |-> "write", status |-> "failed", text |-> "not found"]
               /\ UNCHANGED child
          ELSE IF ~session.backgrounded
          THEN /\ result' = [op |-> "write", status |-> "failed",
                             text |-> "not backgrounded"]
               /\ UNCHANGED child
          ELSE IF child.stdin = "destroyed"
          THEN /\ result' = [op |-> "write", status |-> "failed",
                             text |-> "not writable"]
               /\ UNCHANGED child
          ELSE /\ child' = stdinWrite(child, "write", eof)
               /\ UNCHANGED result
    /\ UNCHANGED <<pc, startError, signal, yieldSignal, hasSink, call,
                   yieldTimer, killCalls, progressEvents, sessions,
                   finishedSessions, session, status, io, clock,
                   events, yieldWindow>>

\* the callback of stdin.write runs: with an error the promise of the tool
\* call is rejected; without one stdin is ended when eof was asked for and
\* the call returns status "running".  A write after end() fails, a write to
\* a live child succeeds, a write to a pipe whose child is gone may do either.
WriteDone ==
    /\ child.write # NoWrite
    /\ \E err \in IF child.write.err THEN {TRUE}
                  ELSE IF child.state = "alive" /\ child.stdin = "open" THEN {FALSE}
                  ELSE BOOLEAN :
          IF err
          THEN /\ result' = [op |-> child.write.op, status |-> "rejected",
                             text |-> "write error"]
               /\ child' = [child EXCEPT !.write = NoWrite]
          ELSE /\ result' = [op |-> child.write.op, status |-> "running",
                             text |-> IF child.write.eof THEN "wrote, stdin closed"
                                      ELSE "wrote"]
               /\ child' = [child EXCEPT
                              !.write = NoWrite,
                              !.stdin = IF child.write.eof /\ @ = "open"
                                        THEN "ended" ELSE @]
    /\ UNCHANGED <<pc, startError, signal, yieldSignal, hasSink, call,
                   yieldTimer, killCalls, progressEvents, sessions,
                   finishedSessions, session, status, io, clock,
                   events, yieldWindow>>

---------------------------------------------------------------------------
Next ==
    \/ ExecuteThrows
    \/ Execute
    \/ BashStreamExecute
    \/ AbortFire
    \/ YieldFire
    \/ TimerExpire
    \/ ChildTerminates
    \/ ExitEvent
    \/ ErrorEvent
    \/ ProcessPoll
    \/ PollProcess
    \/ ProcessKill
    \/ KillProcess
    \/ GetProcessLog
    \/ ProcessLog
    \/ ListProcesses
    \/ ProcessList

Spec == Init /\ [][Next]_vars

\* the event loop runs an armed timer's callback
FairSpec == Spec /\ WF_vars(TimerExpire)

\* the start call with the stdin operations, the kills and the polls
StdinNext ==
    \/ Execute
    \/ AbortFire
    \/ YieldFire
    \/ TimerExpire
    \/ ChildTerminates
    \/ ExitEvent
    \/ ErrorEvent
    \/ StdinCloses
    \/ WriteStdin
    \/ ProcessWrite
    \/ WriteDone
    \/ ProcessPoll
    \/ PollProcess
    \/ ProcessKill
    \/ KillProcess

StdinSpec == Init /\ [][StdinNext]_vars

\* the session of a spawned child that writes output: the supervisor's
\* callbacks, the data handlers and the control operations
OutputNext ==
    \/ ExecuteSpawned
    \/ YieldFire
    \/ TimerExpire
    \/ ChildTerminates
    \/ ExitEvent
    \/ ChildData
    \/ ProcessPoll
    \/ PollProcess
    \/ ProcessKill
    \/ KillProcess
    \/ GetProcessLog
    \/ ProcessLog
    \/ ListProcesses
    \/ ProcessList

OutputSpec == Init /\ [][OutputNext]_vars

\* appendOutput on its own: the caps tried and the number of characters
\* appended in all
MaxCap == 3
MaxAppended == 5

\* a session as execute builds it, with any cap
RingInit ==
    /\ Unstarted
    /\ \E cap \in 1..MaxCap : session = [newSession EXCEPT !.maxOutputChars = cap]

\* appendOutput(session, stream, chunk) for any chunk the data handlers can
\* pass, the characters numbered on from those appended before; io.appended
\* keeps all the text given to appendOutput
AppendOutput ==
    /\ \E stream \in {"stdout", "stderr"},
          len \in 1..ChunkLimit :
          /\ Len(io.appended) + len <= MaxAppended
          /\ LET chunk == [i \in 1..len |-> Len(io.appended) + i]
             IN  /\ session' = appendOutput(session, stream, chunk)
                 /\ io' = [io EXCEPT !.appended = @ \o chunk]
    /\ UNCHANGED <<pc, startError, signal, yieldSignal, hasSink, call,
                   yieldTimer, child, killCalls, progressEvents, sessions,
                   finishedSessions, status, result, clock,
                   events, yieldWindow>>

RingSpec == RingInit /\ [][AppendOutput]_vars

\* drainSession(session) called on its own; the result holds what it returned
DrainSession ==
    /\ session' = drainSession(session)
    /\ io' = drainedBy(io, session)
    /\ result' = [op |-> "drainSession", status |-> "none", text |-> "none",
                  stdout |-> drained(session).stdout,
                  stderr |-> drained(session).stderr]
    /\ UNCHANGED <<pc, startError, signal, yieldSignal, hasSink, call,
                   yieldTimer, child, killCalls, progressEvents, sessions,
                   finishedSessions, status, clock, events, yieldWindow>>

\* appends and drains in any order
DrainNext ==
    \/ AppendOutput
    \/ DrainSession

DrainSpec == RingInit /\ [][DrainNext]_vars

---------------------------------------------------------------------------
(* The finished map and its sweeper, as the specification describes them *)

\* the TTL of a finished session and the last instant of the clock, in ticks
TTL == 1
MaxClock == 3

\* mutant of sweep: every finished session is evicted
sweepAll(finished, clk) == FALSE

\* sweep(now): a finished session is evicted when its endedAt is older than
\* the TTL
sweep(finished, clk) ==
    IF finished /\ clk.now - clk.endedAt > TTL THEN FALSE ELSE finished

\* time passes
Tick ==
    /\ clock.now < MaxClock
    /\ clock' = [clock EXCEPT !.now = @ + 1]
    /\ UNCHANGED <<pc, startError, signal, yieldSignal, hasSink, call,
                   yieldTimer, child, killCalls, progressEvents, sessions,
                   finishedSessions, session, status, result, io,
                   events, yieldWindow>>

\* mark_exited of the registry: the session that has its terminal state moves
\* from the running map to the finished map with endedAt = now
RegistryMarkExited ==
    /\ sessions
    /\ session.exited
    /\ sessions' = FALSE
    /\ finishedSessions' = TRUE
    /\ clock' = [clock EXCEPT !.endedAt = clock.now]
    /\ UNCHANGED <<pc, startError, signal, yieldSignal, hasSink, call,
                   yieldTimer, child, killCalls, progressEvents, session,
                   status, result, io,
                   events, yieldWindow>>

\* the sweeper runs
Sweep ==
    /\ finishedSessions' = sweep(finishedSessions, clock)
    /\ clock' = [clock EXCEPT !.sweptAt = clock.now,
                              !.evicted = @ \/ (finishedSessions
                                                /\ ~sweep(finishedSessions, clock))]
    /\ UNCHANGED <<pc, startError, signal, yieldSignal, hasSink, call,
                   yieldTimer, child, killCalls, progressEvents, sessions,
                   session, status, result, io,
                   events, yieldWindow>>

\* one session from its start to its eviction, with the control operations
SweepNext ==
    \/ ExecuteSpawned
    \/ YieldFire
    \/ TimerExpire
    \/ ChildTerminates
    \/ ExitEvent
    \/ RegistryMarkExited
    \/ Tick
    \/ Sweep
    \/ ProcessPoll
    \/ PollProcess
    \/ GetProcessLog
    \/ ProcessLog
    \/ ListProcesses
    \/ ProcessList

SweepSpec == Init /\ [][SweepNext]_vars

\* the events of one session: a spawned child that writes to a sink, the
\* tokens, the exit, and the gen-1 control operations that mark the session
\* exited
EventNext ==
    \/ ExecuteEmitting
    \/ AbortFire
    \/ YieldFire
    \/ TimerExpire
    \/ ChildTerminates
    \/ ExitEvent
    \/ ChildData
    \/ PollProcess
    \/ KillProcess

EventSpec == Init /\ [][EventNext]_vars

\* a sink that may throw while the child's output is emitted to it
SinkNext ==
    \/ ExecuteEmitting
    \/ ChildData
    \/ ChildDataSinkThrows
    \/ TimerExpire
    \/ ChildTerminates
    \/ ExitEvent

SinkSpec == Init /\ [][SinkNext]_vars

\* the data handlers alone: a spawned child that writes text with multi-byte
\* characters, read in buffers cut anywhere, and polls that drain the queues
DataNext ==
    \/ ExecuteEmitting
    \/ ChildBytes
    \/ PollProcess

DataSpec == Init /\ [][DataNext]_vars

---------------------------------------------------------------------------
(* The yield window *)

\* the literals of clampNumber(readEnvInt("PI_BASH_YIELD_MS"), 60_000, 1_000, 120_000)
YieldFallbackMs == 60000
YieldMinMs == 1000
YieldMaxMs == 120000

\* mutant of clampNumber: the lower limit is not applied
clampNumberNoFloor(value, defaultValue, min, max) ==
    IF value.kind \in {"undefined", "NaN"} THEN defaultValue
    ELSE IF value.kind = "Infinity" THEN max
    ELSE IF value.kind = "-Infinity" THEN min
    ELSE IF value.n > max THEN max ELSE value.n

\* clampNumber(value, defaultValue, min, max):
\* Math.min(Math.max(value, min), max) unless value is undefined or NaN
clampNumber(value, defaultValue, min, max) ==
    IF value.kind \in {"undefined", "NaN"} THEN defaultValue
    ELSE IF value.kind = "Infinity" THEN max
    ELSE IF value.kind = "-Infinity" THEN min
    ELSE LET atLeast == IF value.n > min THEN value.n ELSE min
         IN  IF atLeast < max THEN atLeast ELSE max

\* Number.parseInt(raw, 10)
parseInt(raw) ==
    IF raw.kind = "digits" THEN Number(raw.n)
    ELSE IF raw.kind = "huge" THEN PosInfinity
    ELSE NaN

\* readEnvInt(key): undefined for an unset or empty variable and for a value
\* that does not parse to a finite number
readEnvInt(raw) ==
    IF raw.kind \in {"unset", "empty"} THEN Undefined
    ELSE IF parseInt(raw).kind = "number" THEN parseInt(raw) ELSE Undefined

\* the numbers tried as yieldMs and as the environment value
YieldNumbers == {0 - 1, 0, 999, 1000, 1001, 60000, 119999, 120000, 120001}

\* the values of the environment variable tried
EnvValues == {EnvUnset, EnvEmpty, EnvText, EnvHuge} \cup {EnvDigits(n) : n \in YieldNumbers}

\* the values of the yieldMs argument tried
YieldMsValues ==
    {Undefined, NaN, PosInfinity, NegInfinity} \cup {Number(n) : n \in YieldNumbers}

\* DEFAULT_YIELD_MS, computed when the module is loaded, and
\* yieldWindow = clampNumber(yieldMs, DEFAULT_YIELD_MS, 1_000, 120_000) of execute
YieldWindow ==
    /\ pc = "init"
    /\ \E env \in EnvValues, yieldMs \in YieldMsValues :
          LET default == clampNumber(readEnvInt(env), YieldFallbackMs,
                                     YieldMinMs, YieldMaxMs)
          IN  yieldWindow' =
                 [set |-> TRUE, env |-> env, yieldMs |-> yieldMs,
                  DEFAULT_YIELD_MS |-> default,
                  ms |-> clampNumber(yieldMs, default, YieldMinMs, YieldMaxMs)]
    /\ UNCHANGED <<pc, startError, signal, yieldSignal, hasSink, call,
                   yieldTimer, child, killCalls, progressEvents, sessions,
                   finishedSessions, session, status, result, io, clock, events>>

\* the yield window for any environment value and any yieldMs
YieldSpec == Init /\ [][YieldWindow]_vars

---------------------------------------------------------------------------
(* Claims *)

\* C1: a start call is settled exactly once: every step leaves the number of
\* resolve/reject invocations equal to 1 for a settled call and 0 for a
\* pending one, a settled call keeps its outcome whatever event comes later,
\* and every started call is eventually settled.
C1_SettledExactlyOnce ==
    /\ [][ /\ call'.settleCount = (IF call'.settled THEN 1 ELSE 0)
           /\ call.settled =>
                 /\ call'.settled
                 /\ call'.outcome = call.outcome
                 /\ call'.settledBy = call.settledBy ]_vars
    /\ (pc = "started") ~> call.settled

\* a call settled by the yield token, with the spawn error handled afterwards
C1_Witness ==
    /\ call.settled
    /\ call.settledBy = "yield"
    /\ child.errorEvent = "handled"
    /\ call.settleCount = 1

\* C2: whenever the start call has returned Running, the session is in the
\* running map with backgrounded = true.
C2_RunningIsBackgrounded ==
    call.outcome = "running" => (sessions /\ session.backgrounded)

C4_AbortSettlesFailedByExit ==
    [][ /\ (signal = "idle" /\ signal' = "aborted") => call' = call
        /\ (pc = "started" /\ child.pid /\ signal = "aborted"
               /\ ~call.settled /\ call'.settled)
              => (call'.outcome = "failed" /\ call'.settledBy = "exit") ]_vars

\* C5: the yield token firing on an unsettled call settles it as Running,
\* invokes no killProcessTree, leaves the child as it is and does not fire
\* the abort token.
C5_YieldKeepsChild ==
    [][ (pc = "started" /\ yieldSignal = "idle" /\ yieldSignal' = "aborted"
            /\ ~call.settled)
          => /\ call'.settled
             /\ call'.outcome = "running"
             /\ killCalls' = killCalls
             /\ child' = child
             /\ signal' = signal ]_vars

\* the call was settled by the yield token and the child is alive and unkilled
C5_Witness ==
    /\ call.settledBy = "yield"
    /\ call.outcome = "running"
    /\ child.state = "alive"
    /\ killCalls = 0
    /\ signal = "idle"

\* C6: the sink has received exactly one tool_execution_progress event when
\* the session has yielded and none otherwise.
C6_OneProgressIffYielded ==
    progressEvents = (IF call.yielded /\ hasSink THEN 1 ELSE 0)

\* both the yield token and the yield timer have fired, one event was emitted
C6_Witness ==
    /\ call.yielded
    /\ hasSink
    /\ yieldSignal = "aborted"
    /\ yieldTimer = "fired"
    /\ progressEvents = 1

C9_StatusStable ==
    [][ /\ session'.exited <=> status' \in {"completed", "failed", "killed"}
        /\ (pc = "started" /\ ~session'.exited) => status' = "running"
        /\ session.exited => status' = status ]_vars

\* C10: once kill has marked the session exited, the exit notification that
\* arrives afterwards leaves the recorded status, exit code and exit signal.
C10_MarkExitedIdempotent ==
    [][ (session.exited /\ child.exitEvent = "pending" /\ child'.exitEvent = "handled")
          => (session' = session /\ status' = status) ]_vars


\* C11: a kill of a backgrounded session that is still running calls
\* killProcessTree on the child's pid and, in the same step, records exit code
\* null, exit signal SIGKILL and status killed, and puts the session into the
\* finished map.
C11_KillRecordsKilled ==
    [][ ( /\ ProcessKill \/ KillProcess
          /\ call.outcome = "running"
          /\ sessions
          /\ ~session.exited
          /\ child.state = "alive" )
        => ( /\ killCalls' = killCalls + 1
             /\ session'.exited
             /\ session'.exitCode = NoCode
             /\ session'.exitSignal = "SIGKILL"
             /\ status' = "killed"
             /\ finishedSessions' ) ]_vars

\* C12: once the start call has yielded and a kill has been invoked, the poll
\* that follows finds the session and reports failed or killed with the exit
\* signal set; and a kill of a session that already has a terminal state
\* leaves that state as it was.
C12_KillThenPoll ==
    [][ /\ ( /\ ProcessPoll \/ PollProcess
             /\ call.outcome = "running"
             /\ result.op \in {"kill", "kill_process"} )
           => ( /\ result'.text = "exited"
                /\ result'.status \in {"failed", "killed"}
                /\ session'.exitSignal # NoSignal )
        /\ ( /\ ProcessKill \/ KillProcess
             /\ call.outcome = "running"
             /\ session.exited )
           => ( session' = session /\ status' = status ) ]_vars

\* C13: a registered session is in exactly one of the two maps, and it is in
\* the finished map exactly when it has been marked exited.
C13_OnePartition ==
    pc = "started" =>
        /\ sessions # finishedSessions
        /\ finishedSessions <=> session.exited

\* C14: a registered session has status running exactly while exited is
\* false, and once exited is true neither poll nor log reports it as running
\* and no listing shows it with status running.
C14_ExitedNeverRunning ==
    [][ /\ pc' = "started" => (status' = "running" <=> ~session'.exited)
        /\ (session.exited /\ sessions) =>
              /\ (ProcessPoll \/ PollProcess \/ GetProcessLog \/ ProcessLog)
                    => result'.status # "running"
              /\ (ListProcesses \/ ProcessList)
                    => \A i \in DOMAIN result'.entries :
                          result'.entries[i] # "running" ]_vars

\* C15: after any sequence of appends to a session with cap C, aggregated is
\* at most C characters long and is exactly the last min(total, C) characters
\* of all the text appended, a chunk longer than C included.
C15_RingSuffix ==
    LET total == Len(io.appended)
        cap == session.maxOutputChars
        kept == IF total <= cap THEN total ELSE cap
    IN  /\ Len(session.aggregated) <= cap
        /\ session.aggregated = SubSeq(io.appended, total - kept + 1, total)

\* a chunk longer than the cap has been appended after earlier text
C15_Witness ==
    /\ session.maxOutputChars < ChunkLimit
    /\ session.pendingStdout # <<>>
    /\ Len(session.pendingStdout[Len(session.pendingStdout)]) > session.maxOutputChars
    /\ Len(io.appended) = MaxAppended
    /\ Len(session.aggregated) = session.maxOutputChars

\* C16: the truncated flag of a session is true exactly when an append has
\* dropped characters, that is when more than maxOutputChars characters have
\* been appended in all.
C16_TruncatedIffDropped ==
    session.truncated <=> (Len(io.appended) > session.maxOutputChars)

\* C17: every poll of a session whose start call has yielded hands out all
\* the output read so far that no earlier poll has handed out, per stream and
\* in the order read, so after it the drained output is the output read; for
\* a child that wrote to stdout only, aggregated is the end of the drained
\* output; and the poll of a child that exited with code 0 reports completed.
C17_PollsDrainEverything ==
    [][ ( /\ ProcessPoll \/ PollProcess
          /\ call.outcome = "running"
          /\ sessions )
        => ( /\ io'.drainedOut = io'.readOut
             /\ io'.drainedErr = io'.readErr
             /\ io'.readErr = <<>> =>
                   session'.aggregated =
                      SubSeq(io'.drainedOut,
                             Len(io'.drainedOut) - Len(session'.aggregated) + 1,
                             Len(io'.drainedOut))
             /\ (session.exited /\ session.exitCode = 0 /\ session.exitSignal = NoSignal)
                   => result'.status = "completed" ) ]_vars

C20_TerminalStaysFinished ==
    [][ (sessions /\ session.exited /\ child.exitEvent = "handled") =>
          /\ (ProcessPoll \/ PollProcess \/ ListProcesses \/ ProcessList
                \/ GetProcessLog \/ ProcessLog) => finishedSessions'
          /\ (ListProcesses \/ ProcessList) =>
                \E i \in DOMAIN result'.entries :
                   result'.entries[i] \in {"completed", "failed"}
          /\ (GetProcessLog \/ ProcessLog) =>
                (result'.text = "log" /\ result'.total = Len(session.aggregated)) ]_vars

\* C21: a write with eof to a yielded session whose child is alive with its
\* stdin open is issued and returns status running with stdin ended; and once
\* that child has exited with code 0 a poll of the session reports completed.
C21_WriteEofCompletes ==
    [][ /\ ( /\ ProcessWrite \/ WriteStdin
             /\ call.outcome = "running"
             /\ sessions
             /\ ~session.exited
             /\ child.state = "alive"
             /\ child.stdin = "open" )
           => child'.write # NoWrite
        /\ ( /\ WriteDone
             /\ child.write.eof
             /\ child.state = "alive"
             /\ child.stdin = "open" )
           => (result'.status = "running" /\ child'.stdin = "ended")
        /\ ( /\ ProcessPoll \/ PollProcess
             /\ call.outcome = "running"
             /\ sessions
             /\ child.stdin # "open"
             /\ session.exited
             /\ session.exitCode = 0
             /\ session.exitSignal = NoSignal )
           => result'.status = "completed" ]_vars

\* C22: no control operation on the session of a spawned child throws or
\* rejects: every result is a normal tool result.
C22_ControlOpsNeverReject ==
    child.pid => result.status # "rejected"

C24_LogSlice ==
    [][ \A offset \in LogOffsets \ {NoArg}, limit \in LogLimits :
          ( /\ getProcessLog(offset, limit) \/ processLog(offset, limit)
            /\ sessions )
          => LET text == session'.aggregated
                 last == IF limit = NoArg \/ offset + limit > Len(text)
                         THEN Len(text) ELSE offset + limit
             IN  /\ result'.text = "log"
                 /\ result'.total = Len(text)
                 /\ result'.slice = SubSeq(text, offset + 1, last) ]_vars

\* C25: a listing with limit 0 returns no entry, one without a limit returns
\* every running and finished session, and one with a limit n > 0 returns the
\* first n entries of the snapshot (newest first).
C25_ListLimit ==
    [][ \A limit \in ListLimits :
          (listProcesses(limit) \/ processList(limit))
          => result'.entries =
                IF limit = NoArg \/ limit > Len(listEntries) THEN listEntries
                ELSE SubSeq(listEntries, 1, limit) ]_vars

\* C26: the yield window lies in [1000, 120000]: a yieldMs below 1000 gives
\* 1000, one above 120000 gives 120000, and an undefined or NaN yieldMs gives
\* the default, which is the environment value clamped to the same range, or
\* 60000 when the variable holds no finite number.
C26_YieldWindowClamped ==
    yieldWindow.set =>
        LET y == yieldWindow.yieldMs
            e == yieldWindow.env
            d == yieldWindow.DEFAULT_YIELD_MS
        IN  /\ yieldWindow.ms \in YieldMinMs..YieldMaxMs
            /\ (y.kind = "-Infinity" \/ (y.kind = "number" /\ y.n < YieldMinMs))
                  => yieldWindow.ms = YieldMinMs
            /\ (y.kind = "Infinity" \/ (y.kind = "number" /\ y.n > YieldMaxMs))
                  => yieldWindow.ms = YieldMaxMs
            /\ y.kind \in {"undefined", "NaN"} => yieldWindow.ms = d
            /\ d = IF e.kind # "digits" THEN YieldFallbackMs
                   ELSE IF e.n < YieldMinMs THEN YieldMinMs
                   ELSE IF e.n > YieldMaxMs THEN YieldMaxMs ELSE e.n

\* a yieldMs of 0 under an environment value above the ceiling gives 1000
C26_Witness ==
    /\ yieldWindow.set
    /\ yieldWindow.yieldMs = Number(0)
    /\ yieldWindow.env = EnvDigits(120001)
    /\ yieldWindow.DEFAULT_YIELD_MS = YieldMaxMs
    /\ yieldWindow.ms = YieldMinMs

\* C27: a start call with an empty command throws MissingCommand and one with
\* a stdin mode other than "pipe" throws UnsupportedStdinMode, and the call
\* registers no session, spawns no child and emits no event.
C27_InvalidStartRejected ==
    [][ \A command \in Commands, stdinMode \in StdinModes :
          ( /\ command = "" \/ stdinMode = "pty"
            /\ executeThrows(command, stdinMode) \/ bashStreamExecute(command, stdinMode) )
          => /\ pc' = "threw"
             /\ startError' = IF command = "" THEN "MissingCommand"
                              ELSE "UnsupportedStdinMode"
             /\ UNCHANGED <<sessions, finishedSessions, session, child, events,
                            progressEvents>> ]_vars

\* C28: for each of stdout and stderr the chunks emitted as output events and
\* the chunks queued (drained or still pending), each taken in order and
\* concatenated, are the text of the bytes read from that stream; no chunk is
\* empty or longer than the chunk limit; and the ring holds the end of the
\* text of all the chunks in the order of their events.
C28_ChunksAreBytesRead ==
    (pc = "started" /\ hasSink) =>
        LET RECURSIVE chars(_, _)
            chars(evs, streams) ==
                IF evs = <<>> THEN <<>>
                ELSE IF Head(evs).type = "tool_execution_output"
                        /\ Head(evs).stream \in streams
                     THEN Head(evs).chunk \o chars(Tail(evs), streams)
                     ELSE chars(Tail(evs), streams)
            all == chars(events, {"stdout", "stderr"})
        IN  /\ \A i \in 1..Len(events) :
                  events[i].type = "tool_execution_output"
                  => Len(events[i].chunk) \in 1..ChunkLimit
            /\ \A i \in 1..Len(session.pendingStdout) :
                  Len(session.pendingStdout[i]) \in 1..ChunkLimit
            /\ \A i \in 1..Len(session.pendingStderr) :
                  Len(session.pendingStderr[i]) \in 1..ChunkLimit
            /\ chars(events, {"stdout"}) = toString(io.readOut)
            /\ chars(events, {"stderr"}) = toString(io.readErr)
            /\ io.drainedOut \o join(session.pendingStdout) = toString(io.readOut)
            /\ io.drainedErr \o join(session.pendingStderr) = toString(io.readErr)
            /\ session.aggregated = tail(all, session.maxOutputChars)

C30_SilentAfterMarkExited ==
    [][ (signal = "aborted" /\ ~call.settled /\ session.exited)
        => events' = events ]_vars

\* C31: killProcessTree never raises, and a call for a child that is already
\* dead (killed before, or exited by itself, its exit handled or not) changes
\* neither the child nor the session nor the registry.
C31_KillNeverRaises ==
    [][ /\ ~child'.killError
        /\ (AbortFire /\ child.state = "dead")
              => /\ killCalls' = killCalls + 1
                 /\ UNCHANGED <<child, session, sessions, finishedSessions,
                                status, call>> ]_vars

\* the abort token fired after kill_process had killed the child and the exit
\* was handled: the second killProcessTree call found the pid dead
C31_Witness ==
    /\ killCalls = 2
    /\ signal = "aborted"
    /\ child.state = "dead"
    /\ child.exitEvent = "handled"
    /\ ~child.killError

\* C32: an error the sink throws while a chunk is emitted does not leave the
\* supervisor: everything read from the child is on the pending queues and
\* in the ring, the supervisor goes on, and the call settles once the exit is
\* handled.
C32_SinkErrorSwallowed ==
    /\ pc # "crashed"
    /\ startError = "none"
    /\ pc = "started" =>
          /\ join(session.pendingStdout) = io.readOut
          /\ join(session.pendingStderr) = io.readErr
          /\ Len(session.aggregated) =
                IF Len(io.readOut) + Len(io.readErr) < session.maxOutputChars
                THEN Len(io.readOut) + Len(io.readErr) ELSE session.maxOutputChars
          /\ child.exitEvent = "handled" => call.settled

\* C33: a poll of a yielded session that is still in the running map, is
\* marked exited and has chunks pending returns all the pending output and a
\* terminal status in that one response, and moves the session to the
\* finished map.
C33_PollExitedWithPending ==
    [][ ( /\ ProcessPoll \/ PollProcess
          /\ sessions /\ call.yielded /\ session.exited
          /\ session.pendingStdout # <<>> \/ session.pendingStderr # <<>> )
        => /\ result'.status \in {"completed", "failed"}
           /\ io'.drainedOut = io.drainedOut \o join(session.pendingStdout)
           /\ io'.drainedErr = io.drainedErr \o join(session.pendingStderr)
           /\ session'.pendingStdout = <<>> /\ session'.pendingStderr = <<>>
           /\ ~sessions' /\ finishedSessions' ]_vars

\* C34: drainSession returns the pending stdout chunks joined and the pending
\* stderr chunks joined, each in arrival order, empties both queues and leaves
\* aggregated, tail, the exit fields and the status as they were; a drain of
\* a session that was drained and got no output since returns two empty
\* strings.
C34_DrainFrame ==
    [][ DrainSession
        => /\ result'.stdout = join(session.pendingStdout)
           /\ result'.stderr = join(session.pendingStderr)
           /\ session'.pendingStdout = <<>> /\ session'.pendingStderr = <<>>
           /\ session'.aggregated = session.aggregated
           /\ session'.tail = session.tail
           /\ session'.exited = session.exited
           /\ session'.exitCode = session.exitCode
           /\ session'.exitSignal = session.exitSignal
           /\ session'.truncated = session.truncated
           /\ status' = status
           /\ (result.op = "drainSession" /\ session = drainSession(session))
                 => result'.stdout = <<>> /\ result'.stderr = <<>> ]_vars

\* a drain returned two chunks of stdout and one of stderr, and the ring kept
\* its content
C34_Witness ==
    /\ result.op = "drainSession"
    /\ Len(result.stdout) >= 2 /\ Len(result.stderr) >= 1
    /\ session.pendingStdout = <<>> /\ session.pendingStderr = <<>>
    /\ session.aggregated # <<>>

\* C35: a log changes neither the status, nor exited, the exit code or the
\* exit signal of the session, nor the map that holds it; exited and the maps
\* change only in a start, the exit handler, a poll or a kill.
C35_LogNeverTransitions ==
    [][ /\ (GetProcessLog \/ ProcessLog)
           => /\ UNCHANGED <<sessions, finishedSessions, status>>
              /\ session'.exited = session.exited
              /\ session'.exitCode = session.exitCode
              /\ session'.exitSignal = session.exitSignal
        /\ ( \/ session'.exited # session.exited
             \/ sessions' # sessions
             \/ finishedSessions' # finishedSessions )
           => \/ Execute \/ BashStreamExecute \/ ExitEvent
              \/ ProcessPoll \/ PollProcess \/ ProcessKill \/ KillProcess ]_vars

\* a log was answered for a session that is still in the running map although
\* its child's exit has been handled
C35_Witness ==
    /\ result.op = "get_process_log"
    /\ result.text = "log"
    /\ sessions
    /\ session.exited
    /\ child.exitEvent = "handled"

\* C36: a write with eof ends the child's stdin only when the write of the
\* data succeeded, a failed write leaves stdin as it was, and a write to a
\* registered session whose stdin was ended is answered with the "not
\* writable" failure: it is neither issued nor thrown.
C36_EofClosesAfterWrite ==
    [][ /\ (WriteDone /\ result'.status = "rejected") => child'.stdin = child.stdin
        /\ (WriteDone /\ child.stdin = "open" /\ child'.stdin = "ended")
              => child.write.eof /\ result'.status = "running"
        /\ ( /\ WriteStdin \/ ProcessWrite
             /\ sessions /\ ~session.exited
             /\ child.stdin \in {"ended", "destroyed"} )
              => /\ result'.status = "failed"
                 /\ result'.text = "not writable"
                 /\ child'.write = NoWrite ]_vars

\* C37: a log of a registered session leaves the ring as it was (aggregated
\* and tail keep their value, nothing is appended a second time) and leaves
\* on the pending queues the text that was there, for a later poll to drain.
C37_LogLeavesRing ==
    [][ \A offset \in LogOffsets, limit \in LogLimits :
          (getProcessLog(offset, limit) /\ sessions)
          => /\ session'.aggregated = session.aggregated
             /\ session'.tail = session.tail
             /\ result'.total = Len(session.aggregated)
             /\ join(session'.pendingStdout) = join(session.pendingStdout)
             /\ join(session'.pendingStderr) = join(session.pendingStderr) ]_vars

\* C38: a poll of a yielded session that is marked exited reports the status
\* determined for it when it exited (by the exit handler, or by an earlier
\* poll or kill) and leaves that status as it is: a Failed status is never
\* turned into Completed.
C38_PollKeepsFinalStatus ==
    [][ ( /\ ProcessPoll \/ PollProcess
          /\ sessions /\ call.yielded /\ session.exited
          /\ status \in {"completed", "failed"} )
        => /\ result'.status = status
           /\ status' = status ]_vars

\* C39: once a start call has settled with a Completed result or with an error
\* (a spawn error with no exit event included), its session is not in the
\* running partition with exited = false; only a call that returned Running or
\* is still pending can have a live session there.
C39_SettledCallLeavesNoLiveSession ==
    (call.settled /\ call.outcome \in {"completed", "failed"})
        => ~(sessions /\ ~session.exited)

\* C40: the abort listener outlives the start call.  When the abort token
\* fires after the call has returned Running, the supervisor still calls
\* killProcessTree on the child that has a pid; and for a session that was
\* not yet marked exited when the token fired, the status recorded from then
\* on is Failed and is never Completed.
C40_AbortAfterYieldFails ==
    [][ /\ ( AbortFire /\ call.yielded /\ child.pid )
            => killCalls' = killCalls + 1
        /\ ( /\ signal = "aborted" /\ call.yielded /\ sessions
             /\ session'.exited
             /\ ~session.exited \/ status = "failed" )
            => status' = "failed" ]_vars

====
